---- MODULE Spec2Model ----
(***************************************************************************)
(* Fermatter front end: paragraph segmentation, anchor resolution, the     *)
(* highlight layer, the feedback panel's ordering, the source registry and *)
(* the editor page's state machine (text, snapshots, analysis requests).   *)
(*                                                                         *)
(* Strings are sequences of UTF-16 code units, each written as a one       *)
(* element TLA+ string.  Offsets are 0-based, as in the source.            *)
(***************************************************************************)
EXTENDS Integers, Sequences, FiniteSets, TLC

----------------------------------------------------------------------------
(* Code units *)

NL == "\n"
SP == " "
\* U+0130 LATIN CAPITAL LETTER I WITH DOT ABOVE: one code unit whose lower
\* case is the two code units U+0069 U+0307.
DotI == "I."
CombDot == "."

Alphabet == {NL, SP, "a", "A", DotI}

\* null and undefined of the source, for values that are otherwise records
Null == [null |-> TRUE]

\* Bounds of the checked instances
MaxLen == 4
MaxAnchorLen == 2

StringsUpTo(S, n) == UNION {[1..k -> S] : k \in 0..n}
Texts == StringsUpTo(Alphabet, MaxLen)
Anchors == StringsUpTo(Alphabet, MaxAnchorLen)
Indices == -1 .. (MaxLen \div 2)

Min(a, b) == IF a < b THEN a ELSE b
Max(a, b) == IF a > b THEN a ELSE b

----------------------------------------------------------------------------
(* JavaScript string primitives *)

\* String.prototype.slice(start, end) with non-negative arguments
slice(s, start, end) ==
    LET b == Min(start, Len(s))
        e == Min(end, Len(s))
    IN  IF b >= e THEN <<>> ELSE SubSeq(s, b + 1, e)

\* String.prototype.trim() is truthy iff some code unit is not white space
IsWhiteSpace(c) == c \in {NL, SP}
trimIsEmpty(s) == \A i \in 1..Len(s) : IsWhiteSpace(s[i])

lowerUnit(c) ==
    CASE c = "A"  -> <<"a">>
      [] c = DotI -> <<"i", CombDot>>
      [] OTHER    -> <<c>>

RECURSIVE toLowerCase(_)
toLowerCase(s) ==
    IF s = <<>> THEN <<>> ELSE lowerUnit(Head(s)) \o toLowerCase(Tail(s))

\* String.prototype.indexOf(needle): 0-based, -1 when absent
RECURSIVE indexOfFrom(_, _, _)
indexOfFrom(s, needle, i) ==
    IF i + Len(needle) > Len(s) THEN -1
    ELSE IF SubSeq(s, i + 1, i + Len(needle)) = needle THEN i
    ELSE indexOfFrom(s, needle, i + 1)

indexOf(s, needle) == indexOfFrom(s, needle, 0)

----------------------------------------------------------------------------
\* splitIntoParagraphs: the global regex "one or more non-newlines, then any
\* number of groups (a newline not followed by a newline, then any number of
\* non-newlines)", run with exec until it returns null.

\* A greedy run of non-newlines from the 1-based position i: the first
\* position it does not consume
RECURSIVE lineEnd(_, _)
lineEnd(text, i) ==
    IF i > Len(text) \/ text[i] = NL THEN i ELSE lineEnd(text, i + 1)

\* The repeated group from the 1-based position e; the negative lookahead
\* also succeeds at the end of the text
RECURSIVE groupEnd(_, _)
groupEnd(text, e) ==
    IF /\ e <= Len(text)
       /\ text[e] = NL
       /\ ~(e + 1 <= Len(text) /\ text[e + 1] = NL)
    THEN groupEnd(text, lineEnd(text, e + 1))
    ELSE e

\* regex.exec(text) with regex.lastIndex = lastIndex: the leftmost match at or
\* after lastIndex as [index, end) in 0-based offsets, or Null
RECURSIVE regexExec(_, _)
regexExec(text, lastIndex) ==
    IF lastIndex >= Len(text) THEN Null
    ELSE IF text[lastIndex + 1] = NL THEN regexExec(text, lastIndex + 1)
    ELSE [index |-> lastIndex,
          end   |-> groupEnd(text, lineEnd(text, lastIndex + 1)) - 1]

\* String.prototype.trim()
RECURSIVE trimStart(_)
trimStart(s) ==
    IF s # <<>> /\ IsWhiteSpace(Head(s)) THEN trimStart(Tail(s)) ELSE s

RECURSIVE trimEnd(_)
trimEnd(s) ==
    IF s # <<>> /\ IsWhiteSpace(s[Len(s)]) THEN trimEnd(SubSeq(s, 1, Len(s) - 1)) ELSE s

trim(s) == trimEnd(trimStart(s))

\* Variant: the paragraph stores the trimmed match beside the offsets of the
\* untrimmed one
RECURSIVE splitLoopTrimmed(_, _, _, _)
splitLoopTrimmed(text, lastIndex, idx, result) ==
    LET match == regexExec(text, lastIndex) IN
    IF match = Null THEN result
    ELSE LET m0 == slice(text, match.index, match.end) IN
         IF ~trimIsEmpty(m0)
         THEN splitLoopTrimmed(text, match.end, idx + 1,
                        Append(result, [id      |-> <<"p", idx>>,
                                        content |-> trim(m0),
                                        start   |-> match.index,
                                        end     |-> match.index + Len(m0)]))
         ELSE splitLoopTrimmed(text, match.end, idx, result)

\* Variant: idx is advanced for every match, dropped ones included
RECURSIVE splitLoopCountsAll(_, _, _, _)
splitLoopCountsAll(text, lastIndex, idx, result) ==
    LET match == regexExec(text, lastIndex) IN
    IF match = Null THEN result
    ELSE LET m0 == slice(text, match.index, match.end) IN
         IF ~trimIsEmpty(m0)
         THEN splitLoopCountsAll(text, match.end, idx + 1,
                        Append(result, [id      |-> <<"p", idx>>,
                                        content |-> m0,
                                        start   |-> match.index,
                                        end     |-> match.index + Len(m0)]))
         ELSE splitLoopCountsAll(text, match.end, idx + 1, result)

RECURSIVE splitLoop(_, _, _, _)
splitLoop(text, lastIndex, idx, result) ==
    LET match == regexExec(text, lastIndex) IN
    IF match = Null THEN result
    ELSE LET m0 == slice(text, match.index, match.end) IN
         IF ~trimIsEmpty(m0)
         THEN splitLoop(text, match.end, idx + 1,
                        Append(result, [id      |-> <<"p", idx>>,
                                        content |-> m0,
                                        start   |-> match.index,
                                        end     |-> match.index + Len(m0)]))
         ELSE splitLoop(text, match.end, idx, result)

splitIntoParagraphs(text) == splitLoop(text, 0, 0, <<>>)

----------------------------------------------------------------------------
(* findAnchorPosition *)

\* Variant: Array.prototype.at, which counts a negative index from the end
arrayAtFromEnd(arr, i) ==
    IF i >= 0 /\ i < Len(arr) THEN arr[i + 1]
    ELSE IF i < 0 /\ Len(arr) + i >= 0 THEN arr[Len(arr) + i + 1]
    ELSE Null

\* paragraphs[paragraphIndex] of a JavaScript array: undefined out of range
arrayAt(arr, i) == IF i >= 0 /\ i < Len(arr) THEN arr[i + 1] ELSE Null

\* Variant: the search compares the case as written
findAnchorPositionCaseSensitive(paragraphs, paragraphIndex, anchorText) ==
    LET para == arrayAt(paragraphs, paragraphIndex) IN
    IF para = Null THEN Null
    ELSE LET relativeIndex == indexOf(para.content, anchorText)
         IN  IF relativeIndex = -1 THEN Null
             ELSE [start |-> para.start + relativeIndex,
                   end   |-> para.start + relativeIndex + Len(anchorText)]

findAnchorPosition(paragraphs, paragraphIndex, anchorText) ==
    LET para == arrayAt(paragraphs, paragraphIndex) IN
    IF para = Null THEN Null
    ELSE LET lowerContent  == toLowerCase(para.content)
             lowerAnchor   == toLowerCase(anchorText)
             relativeIndex == indexOf(lowerContent, lowerAnchor)
         IN  IF relativeIndex = -1 THEN Null
             ELSE [start |-> para.start + relativeIndex,
                   end   |-> para.start + relativeIndex + Len(anchorText)]

----------------------------------------------------------------------------
(* The highlight layer *)

\* escapeHtml, one code unit at a time: the five replacements and the line
\* break; each replacement is one element of the layer
escapeUnit(c) ==
    CASE c = "&"  -> "&amp;"
      [] c = "<"  -> "&lt;"
      [] c = ">"  -> "&gt;"
      [] c = "\"" -> "&quot;"
      [] c = "'"  -> "&#039;"
      [] c = NL   -> "<br>"
      [] OTHER    -> c
escapeHtml(str) == [i \in 1..Len(str) |-> escapeUnit(str[i])]

MarkOpen == "<mark>"
MarkClose == "</mark>"

\* An observation without anchor_text carries anchor_text = <<>>: the guard
\* !highlightedObservation?.anchor_text treats absent and empty alike.
highlightedContent(text, highlightedObservation, paragraphs) ==
    IF highlightedObservation = Null \/ highlightedObservation.anchor_text = <<>>
    THEN escapeHtml(text)
    ELSE LET position == findAnchorPosition(paragraphs,
                                            highlightedObservation.paragraph,
                                            highlightedObservation.anchor_text)
         IN  IF position = Null THEN escapeHtml(text)
             ELSE escapeHtml(slice(text, 0, position.start))
                  \o <<MarkOpen>>
                  \o escapeHtml(slice(text, position.start, position.end))
                  \o <<MarkClose>>
                  \o escapeHtml(slice(text, position.end, Len(text)))

HasMark(html) == \E i \in 1..Len(html) : html[i] = MarkOpen

----------------------------------------------------------------------------
(* The feedback panel's ordering: [...observations].sort(compare) *)

MaxObs == 3
MaxPara == 1
MaxSeverity == 5

\* Variant: severity ascending
compareAscendingSeverity(a, b) ==
    IF a.paragraph # b.paragraph THEN a.paragraph - b.paragraph
    ELSE a.severity - b.severity

\* The comparator handed to sort
compare(a, b) ==
    IF a.paragraph # b.paragraph THEN a.paragraph - b.paragraph
    ELSE b.severity - a.severity

\* Array.prototype.sort is stable (ECMAScript 2019): an element goes before the
\* first already placed element that the comparator puts after it.
RECURSIVE insertStable(_, _)
insertStable(sorted, x) ==
    IF sorted = <<>> THEN <<x>>
    ELSE IF compare(x, Head(sorted)) < 0 THEN <<x>> \o sorted
    ELSE <<Head(sorted)>> \o insertStable(Tail(sorted), x)

RECURSIVE arraySortFrom(_, _, _)
arraySortFrom(arr, k, sorted) ==
    IF k > Len(arr) THEN sorted
    ELSE arraySortFrom(arr, k + 1, insertStable(sorted, arr[k]))

arraySort(arr) == arraySortFrom(arr, 1, <<>>)

\* Variant: observations.sort(...) without the copy sorts the received array
sortedObservationsInPlace(observations) ==
    [sorted |-> arraySort(observations), observations |-> arraySort(observations)]

\* The memo's value and the received array after the call
sortedObservations(observations) ==
    [sorted |-> arraySort(observations), observations |-> observations]

\* The received arrays: the observation at position i carries id i
ObservationArrays ==
    UNION {{[i \in 1..k |-> [id |-> i, paragraph |-> f[i][1], severity |-> f[i][2]]] :
                f \in [1..k -> (0..MaxPara) \X (1..MaxSeverity)]} : k \in 0..MaxObs}

----------------------------------------------------------------------------
(* The built-in source registry *)

MaxIds == 3

BUILT_IN_SOURCES ==
    << [id |-> "S1", title |-> "The Elements of Style", category |-> "style-guide", isBuiltIn |-> TRUE],
       [id |-> "S2", title |-> "On Writing Well - William Zinsser", category |-> "style-guide", isBuiltIn |-> TRUE],
       [id |-> "S3", title |-> "APA Publication Manual (7th ed.)", category |-> "reference", isBuiltIn |-> TRUE],
       [id |-> "S4", title |-> "Chicago Manual of Style", category |-> "reference", isBuiltIn |-> TRUE],
       [id |-> "S5", title |-> "Nature: How to Write a Paper", category |-> "research", isBuiltIn |-> TRUE],
       [id |-> "S6", title |-> "Plain Language Guidelines", category |-> "style-guide", isBuiltIn |-> TRUE],
       [id |-> "S7", title |-> "Critical Thinking - Stanford Encyclopedia", category |-> "research", isBuiltIn |-> TRUE],
       [id |-> "S8", title |-> "Logical Fallacies - Purdue OWL", category |-> "reference", isBuiltIn |-> TRUE] >>

\* The entry with userId 'system' and the epoch as both dates
withSystemOwner(s) ==
    [id |-> s.id, title |-> s.title, category |-> s.category, isBuiltIn |-> s.isBuiltIn,
     userId |-> "system", createdAt |-> 0, updatedAt |-> 0]

getBuiltInSources == [i \in 1..Len(BUILT_IN_SOURCES) |-> withSystemOwner(BUILT_IN_SOURCES[i])]

\* Array.prototype.includes
includes(arr, x) == \E i \in 1..Len(arr) : arr[i] = x

\* Array.prototype.filter
RECURSIVE filterById(_, _)
filterById(sources, ids) ==
    IF sources = <<>> THEN <<>>
    ELSE IF includes(ids, Head(sources).id)
         THEN <<Head(sources)>> \o filterById(Tail(sources), ids)
         ELSE filterById(Tail(sources), ids)

\* Variant: one entry per requested id, a placeholder for an unknown id
getSourcesByIdsMapped(ids) ==
    [i \in 1..Len(ids) |->
        IF \E k \in 1..Len(getBuiltInSources) : getBuiltInSources[k].id = ids[i]
        THEN getBuiltInSources[CHOOSE k \in 1..Len(getBuiltInSources) :
                                   getBuiltInSources[k].id = ids[i]]
        ELSE [id |-> ids[i], title |-> "Unknown source", category |-> "custom",
              isBuiltIn |-> FALSE, userId |-> "system", createdAt |-> 0, updatedAt |-> 0]]

getSourcesByIds(ids) ==
    LET builtInSources == getBuiltInSources IN filterById(builtInSources, ids)

\* The ids a caller may pass: the registry's ids and one id the registry lacks
SourceIds == {BUILT_IN_SOURCES[i].id : i \in 1..Len(BUILT_IN_SOURCES)} \cup {"S9"}

----------------------------------------------------------------------------
(* The instability map *)

\* Bounds of the checked unstable lists and maps
MaxUnstable == 3
MaxRewrites == 3
MaxCells == 3

\* Map.prototype.set
mapSet(counts, key, value) ==
    [k \in DOMAIN counts \cup {key} |-> IF k = key THEN value ELSE counts[k]]

\* unstable.forEach((u) => counts.set(u.paragraph, u.rewrite_count))
RECURSIVE forEachSet(_, _)
forEachSet(unstable, counts) ==
    IF unstable = <<>> THEN counts
    ELSE forEachSet(Tail(unstable),
                    mapSet(counts, Head(unstable).paragraph, Head(unstable).rewrite_count))

\* The memo rewriteCounts: a Map from paragraph to rewrite count
rewriteCounts(unstable) == forEachSet(unstable, <<>>)

\* Math.max(1, ...unstable.map((u) => u.rewrite_count))
RECURSIVE maxCountFrom(_, _)
maxCountFrom(unstable, best) ==
    IF unstable = <<>> THEN best
    ELSE maxCountFrom(Tail(unstable), Max(best, Head(unstable).rewrite_count))

maxCount(unstable) == maxCountFrom(unstable, 1)

\* rewriteCounts.get(i) || 0: undefined and 0 both give 0
cellCount(counts, i) == IF i \in DOMAIN counts /\ counts[i] # 0 THEN counts[i] ELSE 0

\* Variant: the threshold is exclusive
isUnstableAbove(count) == count > 2

\* const isUnstable = count >= 2
isUnstable(count) == count >= 2

\* The cells of the bar, one per paragraph: Array.from({ length: paragraphCount })
instabilityCells(unstable, paragraphCount) ==
    LET counts == rewriteCounts(unstable) IN
    [k \in 1..paragraphCount |->
        LET count == cellCount(counts, k - 1) IN
        [count      |-> count,
         maxCount   |-> maxCount(unstable),
         isUnstable |-> isUnstable(count),
         title      |-> <<k, count>>]]

\* [...unstable].sort((a, b) => b.rewrite_count - a.rewrite_count), stable
RECURSIVE insertByCount(_, _)
insertByCount(sorted, u) ==
    IF sorted = <<>> THEN <<u>>
    ELSE IF Head(sorted).rewrite_count - u.rewrite_count < 0
         THEN <<u>> \o sorted
         ELSE <<Head(sorted)>> \o insertByCount(Tail(sorted), u)

RECURSIVE sortedUnstableFrom(_, _)
sortedUnstableFrom(unstable, sorted) ==
    IF unstable = <<>> THEN sorted
    ELSE sortedUnstableFrom(Tail(unstable), insertByCount(sorted, Head(unstable)))

sortedUnstable(unstable) == sortedUnstableFrom(unstable, <<>>)

\* sortedUnstable.slice(0, 3): the "Most Rewritten" list
mostRewritten(unstable) == slice(sortedUnstable(unstable), 0, 3)

\* The unstable lists and paragraph counts the map may receive
UnstableEntries == [paragraph : 0..(MaxCells - 1), rewrite_count : 0..MaxRewrites]
UnstableLists == StringsUpTo(UnstableEntries, MaxUnstable)

----------------------------------------------------------------------------
(* The instability tracker: track(snapshots, current_text) *)

\* Bounds of the checked snapshot histories
MaxHistory == 3
MaxTs == 2
MaxDocParas == 2

\* A rewrite is substantive when the similarity of the normalized contents,
\* in percent, is below this; slots rewritten this often or more are emitted
SimilarityThreshold == 60
MaterialityThreshold == 2

\* Sort by timestamp ascending on a copy, stable
RECURSIVE insertByTs(_, _)
insertByTs(sorted, s) ==
    IF sorted = <<>> THEN <<s>>
    ELSE IF s.ts < Head(sorted).ts THEN <<s>> \o sorted
    ELSE <<Head(sorted)>> \o insertByTs(Tail(sorted), s)

RECURSIVE sortByTsFrom(_, _)
sortByTsFrom(snapshots, sorted) ==
    IF snapshots = <<>> THEN sorted
    ELSE sortByTsFrom(Tail(snapshots), insertByTs(sorted, Head(snapshots)))

sortByTs(snapshots) == sortByTsFrom(snapshots, <<>>)

\* The versions walked: the sorted snapshots' texts, then the current text as
\* the final snapshot
versionsOf(snapshots, currentText) ==
    [k \in 1..Len(snapshots) |-> sortByTs(snapshots)[k].text] \o <<currentText>>

\* The paragraphs of a version, by index
segmentContents(t) ==
    LET ps == splitIntoParagraphs(t) IN [k \in 1..Len(ps) |-> ps[k].content]

\* Normalization: case, white space and punctuation do not count
IsPunctuation(c) == c \in {".", ",", ";", ":", "!", "?"}

RECURSIVE normalize(_)
normalize(s) ==
    IF s = <<>> THEN <<>>
    ELSE IF IsWhiteSpace(Head(s)) \/ IsPunctuation(Head(s)) THEN normalize(Tail(s))
    ELSE toLowerCase(<<Head(s)>>) \o normalize(Tail(s))

\* The similarity of two normalized contents, in percent: the share of
\* positions at which they agree
similarity(a, b) ==
    IF a = b THEN 100
    ELSE (100 * Cardinality({i \in 1..Min(Len(a), Len(b)) : a[i] = b[i]}))
            \div Max(Len(a), Len(b))

substantive(a, b) == similarity(normalize(a), normalize(b)) < SimilarityThreshold

\* Variant: the rewrites of a slot are its distinct contents but one
slotRewritesDistinct(segs, i) ==
    Cardinality({normalize(segs[k][i + 1]) :
                    k \in {j \in 1..Len(segs) : i < Len(segs[j])}}) - 1

\* The rewrites of slot i: the pairs of consecutive versions that both have
\* the slot and whose contents at it differ substantively
slotRewrites(segs, i) ==
    Cardinality({k \in 1..(Len(segs) - 1) :
                    /\ i < Len(segs[k])
                    /\ i < Len(segs[k + 1])
                    /\ substantive(segs[k][i + 1], segs[k + 1][i + 1])})

\* The unstable paragraphs of the slots from i on, in slot order
RECURSIVE unstableFrom(_, _, _)
unstableFrom(segs, i, slots) ==
    IF i >= slots THEN <<>>
    ELSE LET n == slotRewrites(segs, i) IN
         IF n >= MaterialityThreshold
         THEN <<[paragraph |-> i, rewrite_count |-> n, note |-> <<"Rewritten", n>>]>>
                  \o unstableFrom(segs, i + 1, slots)
         ELSE unstableFrom(segs, i + 1, slots)

track(snapshots, currentText) ==
    LET versions == versionsOf(snapshots, currentText)
        segs     == [k \in 1..Len(versions) |-> segmentContents(versions[k])]
    IN  unstableFrom(segs, 0, Len(segs[Len(segs)]))

\* The documents of the checked histories: up to MaxDocParas paragraphs
\* separated by a blank line, the first one of a, b and a with a full stop, the
\* later ones a or b
TrackParagraphs == {<<"a">>, <<"b">>, <<"a", ".">>}
LaterParagraphs == {<<"a">>, <<"b">>}

RECURSIVE joinParagraphs(_)
joinParagraphs(ps) ==
    IF ps = <<>> THEN <<>>
    ELSE IF Len(ps) = 1 THEN Head(ps)
    ELSE Head(ps) \o <<NL, NL>> \o joinParagraphs(Tail(ps))

TrackTexts ==
    {joinParagraphs(ps) :
        ps \in {q \in StringsUpTo(TrackParagraphs, MaxDocParas) :
                   \A k \in 2..Len(q) : q[k] \in LaterParagraphs}}
TrackSnapshots == StringsUpTo([ts : 1..MaxTs, text : TrackTexts], MaxHistory)

----------------------------------------------------------------------------
(* The split-based segmenter of Editor, the paragraph counter and
   ParagraphHighlighter *)

MaxSplitLen == 5

\* The first position from i on that holds no white space, Len(text) + 1 if
\* there is none
RECURSIVE whiteSpaceEnd(_, _)
whiteSpaceEnd(text, i) ==
    IF i > Len(text) \/ ~IsWhiteSpace(text[i]) THEN i
    ELSE whiteSpaceEnd(text, i + 1)

\* /\n\s*\n/ matched at the 1-based position p: the position of the match's
\* last code unit (\s* is greedy and \s matches \n), 0 if it does not match
separatorEnd(text, p) ==
    IF text[p] # NL THEN 0
    ELSE LET newlines == {j \in (p + 1)..(whiteSpaceEnd(text, p + 1) - 1) :
                             text[j] = NL}
         IN  IF newlines = {} THEN 0
             ELSE CHOOSE j \in newlines : \A k \in newlines : k <= j

\* text.split(/\n\s*\n/) from position p, the current piece starting at start
RECURSIVE splitFrom(_, _, _)
splitFrom(text, p, start) ==
    IF p > Len(text) THEN <<SubSeq(text, start, Len(text))>>
    ELSE LET e == separatorEnd(text, p) IN
         IF e # 0
         THEN <<SubSeq(text, start, p - 1)>> \o splitFrom(text, e + 1, e + 1)
         ELSE splitFrom(text, p + 1, start)

\* .filter((p) => p.trim())
RECURSIVE filterNonBlank(_)
filterNonBlank(pieces) ==
    IF pieces = <<>> THEN <<>>
    ELSE IF trimIsEmpty(Head(pieces)) THEN filterNonBlank(Tail(pieces))
    ELSE <<Head(pieces)>> \o filterNonBlank(Tail(pieces))

\* splitIntoParagraphs of Editor.tsx: text.split(/\n\s*\n/).filter((p) => p.trim())
editorSplitIntoParagraphs(text) == filterNonBlank(splitFrom(text, 1, 1))

SplitAlphabet == {NL, SP, "a"}
SplitTexts == StringsUpTo(SplitAlphabet, MaxSplitLen)

----------------------------------------------------------------------------
(* The editor page: constants, the analysis back end, stored documents *)

MAX_SNAPSHOTS == 20

\* Bounds of the checked editor sessions
MaxClock == 23
MaxAnalyzeCalls == 2
MaxNotes == 1
MaxEditLen == 2
MaxSaveCalls == 2
MaxPanelNotes == 2

\* No note: the null of hoveredNote and activeNote, which otherwise hold ids
NoNote == "none"
NoteIds == {"o1", "o2"}

\* The signed-in user and another one
UserId == "u1"
OtherUser == "u2"

\* Ids of stored documents: one that exists when the page opens, those that
\* createDocument hands out in turn, one that is stored nowhere
StoredDocId == "d1"
CreatedDocIds == <<"d2", "d3">>
MissingDocId == "d9"
DocIds == {StoredDocId} \cup {CreatedDocIds[i] : i \in 1..Len(CreatedDocIds)}
NoDocumentId == "none"

\* Variant: the history keeps its first MAX_SNAPSHOTS entries
setSnapshotsKeepOldest(prev, snapshot) ==
    LET updated == Append(prev, snapshot) IN
    IF Len(updated) > MAX_SNAPSHOTS
    THEN SubSeq(updated, 1, MAX_SNAPSHOTS)
    ELSE updated

\* The updater handed to setSnapshots: updated.slice(-MAX_SNAPSHOTS)
setSnapshotsUpdater(prev, snapshot) ==
    LET updated == Append(prev, snapshot) IN
    IF Len(updated) > MAX_SNAPSHOTS
    THEN SubSeq(updated, Len(updated) - MAX_SNAPSHOTS + 1, Len(updated))
    ELSE updated

\* The non-empty substrings of s of at most n code units
Substrings(s, n) ==
    {SubSeq(s, i, j) : i \in 1..Len(s), j \in 1..Len(s)} \cap
    {x \in StringsUpTo(Alphabet, n) : x # <<>>}

\* The observations the analysis service may return for a text: the paragraph
\* exists and anchor_text is absent or a literal substring of that paragraph
ObservationsFor(t) ==
    LET ps == splitIntoParagraphs(t) IN
    UNION {{[id |-> i, paragraph |-> k - 1, anchor_text |-> a] :
                i \in NoteIds,
                a \in {<<>>} \cup Substrings(ps[k].content, MaxAnchorLen)} :
           k \in 1..Len(ps)}

\* The responses to an analyze request for text t with at most n
\* observations, their ids pairwise distinct
ResponsesUpTo(t, n) ==
    {[observations |-> obs] :
        obs \in {o \in StringsUpTo(ObservationsFor(t), n) :
                    \A i, j \in 1..Len(o) : i # j => o[i].id # o[j].id}}

\* The responses to an analyze request for text t
ResponsesFor(t) == ResponsesUpTo(t, MaxNotes)

\* observations.find((o) => o.id === noteId) || null
RECURSIVE findById(_, _)
findById(observations, noteId) ==
    IF observations = <<>> THEN Null
    ELSE IF Head(observations).id = noteId THEN Head(observations)
    ELSE findById(Tail(observations), noteId)

----------------------------------------------------------------------------
(* The auth provider and the pages' guards *)

NoUser == "none"
Users == {UserId, OtherUser}
NoAuthError == "none"

\* The routes of App
LandingRoute == "/"
Routes == {LandingRoute, "/dashboard", "/documents", "/editor",
           "/editor/:documentId", "/library"}
Guarded(r) == r # LandingRoute

\* isAuthenticated: !!user
isAuthenticated(user) == user # NoUser

\* Variant: the dashboard renders its content once nothing is loading
DashboardPageUnguarded(authLoading, isLoading, authenticated) ==
    IF authLoading \/ isLoading THEN "loader" ELSE "content"

\* What DashboardPage returns
DashboardPage(authLoading, isLoading, authenticated) ==
    IF authLoading \/ isLoading THEN "loader"
    ELSE IF ~authenticated THEN "null"
    ELSE "content"

\* What DocumentsPage returns
DocumentsPage(authLoading, authenticated) ==
    IF authLoading THEN "loader"
    ELSE IF ~authenticated THEN "null"
    ELSE "content"

\* What EditorPage returns
EditorPage(authLoading, isLoadingDocument, authenticated) ==
    IF authLoading \/ isLoadingDocument THEN "loader"
    ELSE IF ~authenticated THEN "null"
    ELSE "content"

\* What LibraryPage returns
LibraryPage(authLoading, authenticated) ==
    IF authLoading THEN "loader"
    ELSE IF ~authenticated THEN "null"
    ELSE "content"

\* The element the router renders for route r
routeElement(r, authLoading, pageLoading, authenticated) ==
    CASE r = "/dashboard" -> DashboardPage(authLoading, pageLoading, authenticated)
      [] r = "/documents" -> DocumentsPage(authLoading, authenticated)
      [] r = "/library"   -> LibraryPage(authLoading, authenticated)
      [] r \in {"/editor", "/editor/:documentId"} ->
             EditorPage(authLoading, pageLoading, authenticated)
      [] OTHER -> "landing"

\* The initial isLoading of DashboardPage and isLoadingDoc of EditorPage
initialPageLoading(r) == r \in {"/dashboard", "/editor/:documentId"}

\* The pages' effect "redirect to landing if not authenticated": the route
\* after it ran
redirectEffect(r, authLoading, authenticated) ==
    IF ~authLoading /\ ~authenticated THEN LandingRoute ELSE r

----------------------------------------------------------------------------
(* State *)

\* A call of splitIntoParagraphs and findAnchorPosition: the text, the
\* paragraphs, the observation's index and anchor, the position, the layer
VARIABLES sgText, sgParas, sgIdx, sgAnchor, sgPos, sgHtml, sgPc

sgVars == <<sgText, sgParas, sgIdx, sgAnchor, sgPos, sgHtml, sgPc>>

\* A render of the feedback panel: the received array and the sorted memo
VARIABLES stObservations, stSorted, stPc

stVars == <<stObservations, stSorted, stPc>>

\* A call of getSourcesByIds: the ids and the sources returned
VARIABLES srIds, srSources, srPc

srVars == <<srIds, srSources, srPc>>

\* A render of the instability map: the props and the cells of the bar
VARIABLES imUnstable, imParagraphCount, imCells, imMostRewritten, imPc

imVars == <<imUnstable, imParagraphCount, imCells, imMostRewritten, imPc>>

\* A call of the instability tracker: the snapshots, the current text and the
\* unstable paragraphs returned
VARIABLES rwSnapshots, rwText, rwUnstable, rwPc

rwVars == <<rwSnapshots, rwText, rwUnstable, rwPc>>

\* A text handed to both segmenters: the paragraphs of EditorPage and those
\* of Editor, the paragraph counter and ParagraphHighlighter
VARIABLES agText, agMatched, agSplit, agPc

agVars == <<agText, agMatched, agSplit, agPc>>

\* The auth provider and the page the router has mounted
VARIABLES
    auUser,             \* the signed-in user's id, or NoUser
    auLoading,          \* the provider's isLoading
    auError,            \* the provider's error, or NoAuthError
    auRoute,            \* the route of the mounted page
    auPageLoading,      \* the page's isLoading (dashboard) or isLoadingDoc (editor)
    auPending,          \* the landing page's pendingNavigate ref
    auEffects           \* the mounted page's effects are still to run

auVars == <<auUser, auLoading, auError, auRoute, auPageLoading, auPending, auEffects>>

\* The editor page
VARIABLES
    text,               \* the textarea's value
    snapshots,          \* the snapshot history, oldest first
    lastTextRef,        \* the text of the last snapshot taken
    clock,              \* the number of snapshots created, their time stamp
    analysisResult,     \* the last response stored, or Null
    resultRequest,      \* the number of the analyze call it answers, 0 if none
    isAnalyzing,
    error,              \* the error banner's message, or NoError
    requests,           \* the analyze calls that have not finished
    issued,             \* the number of analyze calls made
    expandedNotes,
    hoveredNote,
    activeNote,
    documentId,         \* the route's document id, or NoDocumentId
    currentDocument,    \* Null or the stored document the page works on
    isLoadingDoc,
    isSaving,
    hasUnsavedChanges,
    lastSavedTextRef,
    saves,              \* the saveDocument calls that have not finished
    savesIssued,        \* the number of saveDocument calls that went to the store
    autosaveTimer,      \* Null or the render the pending auto-save timer closes over
    store,              \* the stored documents by id, Null where none
    route               \* the page shown: the editor or where it navigated

edVars == <<text, snapshots, lastTextRef, clock, analysisResult, resultRequest,
            isAnalyzing,
            error, requests, issued, expandedNotes, hoveredNote, activeNote,
            documentId, currentDocument, isLoadingDoc, isSaving,
            hasUnsavedChanges, lastSavedTextRef, saves, savesIssued, autosaveTimer,
             store, route>>

textVars == <<text, snapshots, lastTextRef, clock>>
analysisVars == <<analysisResult, resultRequest, isAnalyzing, error, requests, issued>>
noteVars == <<expandedNotes, hoveredNote, activeNote>>
docVars == <<documentId, currentDocument, isLoadingDoc, isSaving,
             hasUnsavedChanges, lastSavedTextRef, saves, savesIssued, autosaveTimer,
             store, route>>

vars == <<sgVars, stVars, srVars, imVars, rwVars, agVars, auVars, edVars>>

----------------------------------------------------------------------------
(* Segmentation and anchor resolution applied to bounded inputs *)

SegInit ==
    /\ sgText \in Texts
    /\ sgParas = <<>>
    /\ sgIdx = 0
    /\ sgAnchor = <<>>
    /\ sgPos = Null
    /\ sgHtml = <<>>
    /\ sgPc = "text"

Segment ==
    /\ sgPc = "text"
    /\ sgParas' = splitIntoParagraphs(sgText)
    /\ sgPc' = "split"
    /\ UNCHANGED <<sgText, sgIdx, sgAnchor, sgPos, sgHtml>>
    /\ UNCHANGED <<stVars, srVars, imVars, rwVars, agVars, auVars, edVars>>

Resolve ==
    /\ sgPc = "split"
    /\ \E i \in Indices, a \in Anchors :
         /\ sgIdx' = i
         /\ sgAnchor' = a
         /\ sgPos' = findAnchorPosition(sgParas, i, a)
         /\ sgHtml' = highlightedContent(sgText,
                                         [paragraph |-> i, anchor_text |-> a],
                                         sgParas)
    /\ sgPc' = "resolved"
    /\ UNCHANGED <<sgText, sgParas>>
    /\ UNCHANGED <<stVars, srVars, imVars, rwVars, agVars, auVars, edVars>>

\* The state of this part while another part of the program is exercised
SegIdle ==
    /\ sgText = <<>>
    /\ sgParas = <<>>
    /\ sgIdx = 0
    /\ sgAnchor = <<>>
    /\ sgPos = Null
    /\ sgHtml = <<>>
    /\ sgPc = "idle"


----------------------------------------------------------------------------
(* The feedback panel rendered with bounded props *)

SortInit ==
    /\ stObservations \in ObservationArrays
    /\ stSorted = <<>>
    /\ stPc = "props"

RenderPanel ==
    /\ stPc = "props"
    /\ LET r == sortedObservations(stObservations) IN
         /\ stSorted' = r.sorted
         /\ stObservations' = r.observations
    /\ stPc' = "rendered"
    /\ UNCHANGED <<sgVars, srVars, imVars, rwVars, agVars, auVars, edVars>>

SortIdle ==
    /\ stObservations = <<>>
    /\ stSorted = <<>>
    /\ stPc = "idle"

----------------------------------------------------------------------------
(* getSourcesByIds applied to bounded id lists *)

SourcesInit ==
    /\ srIds \in StringsUpTo(SourceIds, MaxIds)
    /\ srSources = <<>>
    /\ srPc = "ids"

ResolveSources ==
    /\ srPc = "ids"
    /\ srSources' = getSourcesByIds(srIds)
    /\ srPc' = "resolved"
    /\ UNCHANGED srIds
    /\ UNCHANGED <<sgVars, stVars, imVars, rwVars, agVars, auVars, edVars>>

SourcesIdle ==
    /\ srIds = <<>>
    /\ srSources = <<>>
    /\ srPc = "idle"

----------------------------------------------------------------------------
(* The instability map rendered on bounded props *)

MapInit ==
    /\ imUnstable \in UnstableLists
    /\ imParagraphCount \in 0..MaxCells
    /\ imCells = <<>>
    /\ imMostRewritten = <<>>
    /\ imPc = "props"

\* A render: nothing when paragraphCount === 0, else the bar and the list
RenderMap ==
    /\ imPc = "props"
    /\ IF imParagraphCount = 0
       THEN /\ imPc' = "nothing"
            /\ UNCHANGED <<imCells, imMostRewritten>>
       ELSE /\ imPc' = "rendered"
            /\ imCells' = instabilityCells(imUnstable, imParagraphCount)
            /\ imMostRewritten' = mostRewritten(imUnstable)
    /\ UNCHANGED <<imUnstable, imParagraphCount>>
    /\ UNCHANGED <<sgVars, stVars, srVars, rwVars, agVars, auVars, edVars>>

MapIdle ==
    /\ imUnstable = <<>>
    /\ imParagraphCount = 0
    /\ imCells = <<>>
    /\ imMostRewritten = <<>>
    /\ imPc = "idle"

----------------------------------------------------------------------------
(* The instability tracker applied to bounded snapshot histories *)

TrackInit ==
    /\ rwSnapshots \in TrackSnapshots
    /\ rwText \in TrackTexts
    /\ rwUnstable = <<>>
    /\ rwPc = "request"

Track ==
    /\ rwPc = "request"
    /\ rwUnstable' = track(rwSnapshots, rwText)
    /\ rwPc' = "tracked"
    /\ UNCHANGED <<rwSnapshots, rwText>>
    /\ UNCHANGED <<sgVars, stVars, srVars, imVars, agVars, auVars, edVars>>

TrackIdle ==
    /\ rwSnapshots = <<>>
    /\ rwText = <<>>
    /\ rwUnstable = <<>>
    /\ rwPc = "idle"

----------------------------------------------------------------------------
(* Both segmenters applied to bounded texts *)

AgreeInit ==
    /\ agText \in SplitTexts
    /\ agMatched = <<>>
    /\ agSplit = <<>>
    /\ agPc = {}

\* The paragraphs memo of EditorPage
SegmentByMatch ==
    /\ "match" \notin agPc
    /\ agPc # {"idle"}
    /\ agMatched' = splitIntoParagraphs(agText)
    /\ agPc' = agPc \cup {"match"}
    /\ UNCHANGED <<agText, agSplit>>
    /\ UNCHANGED <<sgVars, stVars, srVars, imVars, rwVars, auVars, edVars>>

\* The paragraphs of Editor, the paragraph counter and ParagraphHighlighter
SegmentBySplit ==
    /\ "split" \notin agPc
    /\ agPc # {"idle"}
    /\ agSplit' = editorSplitIntoParagraphs(agText)
    /\ agPc' = agPc \cup {"split"}
    /\ UNCHANGED <<agText, agMatched>>
    /\ UNCHANGED <<sgVars, stVars, srVars, imVars, rwVars, auVars, edVars>>

AgreeIdle ==
    /\ agText = <<>>
    /\ agMatched = <<>>
    /\ agSplit = <<>>
    /\ agPc = {"idle"}

----------------------------------------------------------------------------
(* The editor page's state *)

NoError == "none"

\* The page after mounting on a route without a document id, nothing stored:
\* the useState initial values, and hasUnsavedChanges as the mount effect sets
\* it (title !== undefined), with the auto-save timer that render sets
EditorInit ==
    /\ text = <<>>
    /\ snapshots = <<>>
    /\ lastTextRef = <<>>
    /\ clock = 0
    /\ analysisResult = Null
    /\ resultRequest = 0
    /\ isAnalyzing = FALSE
    /\ error = NoError
    /\ requests = {}
    /\ issued = 0
    /\ expandedNotes = {}
    /\ hoveredNote = NoNote
    /\ activeNote = NoNote
    /\ documentId = NoDocumentId
    /\ currentDocument = Null
    /\ isLoadingDoc = FALSE
    /\ isSaving = FALSE
    /\ hasUnsavedChanges = TRUE
    /\ lastSavedTextRef = <<>>
    /\ saves = {}
    /\ savesIssued = 0
    /\ autosaveTimer = [document |-> Null, isSaving |-> FALSE, content |-> <<>>]
    /\ store = [d \in DocIds |-> Null]
    /\ route = "editor"

\* The memos of the render
paragraphs == splitIntoParagraphs(text)

highlightedObservation ==
    LET noteId == IF hoveredNote # NoNote THEN hoveredNote ELSE activeNote IN
    IF noteId = NoNote \/ analysisResult = Null THEN Null
    ELSE findById(analysisResult.observations, noteId)

highlightLayer == highlightedContent(text, highlightedObservation, paragraphs)

\* The page body is rendered: not the loader, not another page
EditorShown == route = "editor" /\ ~isLoadingDoc

\* The feedback cards are rendered: not the skeletons, not the empty state
CardsShown ==
    /\ EditorShown
    /\ ~isAnalyzing
    /\ analysisResult # Null
    /\ analysisResult.observations # <<>>

\* The effect that tracks unsaved changes, run after a render in which text
\* or currentDocument?.title changed; the title field is never edited, so
\* title !== currentDocument?.title holds exactly without a document
unsavedAfter(newText, newSavedText, newDocument) ==
    newText # newSavedText \/ newDocument = Null

\* The auto-save effect, run after a render in which text or hasUnsavedChanges
\* changed: it clears the pending timer and, with unsaved changes, sets one
\* whose saveDocument closes over that render
autosaveAfter(newText, newUnsaved, newDocument, newIsSaving) ==
    IF newText = text /\ newUnsaved = hasUnsavedChanges THEN autosaveTimer
    ELSE IF newUnsaved
    THEN [document |-> newDocument, isSaving |-> newIsSaving, content |-> newText]
    ELSE Null

\* The id createDocument hands out next
nextDocId(docs) ==
    CreatedDocIds[CHOOSE i \in 1..Len(CreatedDocIds) :
                     /\ docs[CreatedDocIds[i]] = Null
                     /\ \A j \in 1..(i - 1) : docs[CreatedDocIds[j]] # Null]

----------------------------------------------------------------------------
(* The editor page's handlers *)

\* The textarea's onChange with the new value t, and the unsaved-changes
\* effect of the render that follows
SetText(t) ==
    /\ EditorShown
    /\ t # text
    /\ text' = t
    /\ hasUnsavedChanges' = unsavedAfter(t, lastSavedTextRef, currentDocument)
    /\ autosaveTimer' = autosaveAfter(t, hasUnsavedChanges', currentDocument, isSaving)
    /\ UNCHANGED <<snapshots, lastTextRef, clock>>
    /\ UNCHANGED analysisVars
    /\ UNCHANGED noteVars
    /\ UNCHANGED <<documentId, currentDocument, isLoadingDoc, isSaving,
                   lastSavedTextRef, saves, savesIssued, store, route>>
    /\ UNCHANGED <<sgVars, stVars, srVars, imVars, rwVars, agVars, auVars>>

\* createSnapshot goes past its early return
createSnapshotRuns == ~trimIsEmpty(text) /\ text # lastTextRef

\* createSnapshot(); the time stamp is the count of snapshots created
createSnapshot ==
    IF createSnapshotRuns
    THEN /\ snapshots' = setSnapshotsUpdater(snapshots, [ts |-> clock + 1, text |-> text])
         /\ lastTextRef' = text
         /\ clock' = clock + 1
    ELSE UNCHANGED <<snapshots, lastTextRef, clock>>

\* The interval timer's call of createSnapshot
SnapshotTick ==
    /\ route = "editor"
    /\ createSnapshotRuns
    /\ clock < MaxClock
    /\ createSnapshot
    /\ UNCHANGED text
    /\ UNCHANGED analysisVars
    /\ UNCHANGED noteVars
    /\ UNCHANGED docVars
    /\ UNCHANGED <<sgVars, stVars, srVars, imVars, rwVars, agVars, auVars>>

\* Variant: the request carries the stored content of the current document
analyzeRequestOfStoredContent ==
    [id        |-> issued + 1,
     text      |-> IF currentDocument # Null THEN currentDocument.content ELSE text,
     snapshots |-> snapshots,
     document  |-> currentDocument,
     phase     |-> "analyze"]

\* The argument of analyzeText and the document the handler closes over: the
\* text, snapshots and currentDocument of the render the handler was created in
analyzeRequest ==
    [id        |-> issued + 1,
     text      |-> text,
     snapshots |-> snapshots,
     document  |-> currentDocument,
     phase     |-> "analyze"]

\* handleAnalyze up to its await
handleAnalyze ==
    /\ EditorShown
    /\ ~trimIsEmpty(text)
    /\ issued < MaxAnalyzeCalls
    /\ createSnapshotRuns => clock < MaxClock
    /\ isAnalyzing' = TRUE
    /\ error' = NoError
    /\ activeNote' = NoNote
    /\ expandedNotes' = {}
    /\ createSnapshot
    /\ issued' = issued + 1
    /\ requests' = requests \cup {analyzeRequest}
    /\ UNCHANGED <<text, analysisResult, resultRequest, hoveredNote>>
    /\ UNCHANGED docVars
    /\ UNCHANGED <<sgVars, stVars, srVars, imVars, rwVars, agVars, auVars>>

\* The Analyze button, disabled while isAnalyzing or the text is blank
AnalyzeButton == ~isAnalyzing /\ handleAnalyze

\* Ctrl/Cmd+Enter in the textarea
AnalyzeShortcut == handleAnalyze

\* analyzeText resolves with at most n observations: the result is stored;
\* with a current document the handler then awaits updateDocument, else its
\* finally block runs
analyzeTextResolves(n) ==
    /\ route = "editor"
    /\ \E r \in requests :
         /\ r.phase = "analyze"
         /\ \E response \in ResponsesUpTo(r.text, n) : analysisResult' = response
         /\ resultRequest' = r.id
         /\ IF r.document # Null
            THEN /\ requests' = (requests \ {r}) \cup {[r EXCEPT !.phase = "update"]}
                 /\ UNCHANGED isAnalyzing
            ELSE /\ requests' = requests \ {r}
                 /\ isAnalyzing' = FALSE
    /\ UNCHANGED <<error, issued>>
    /\ UNCHANGED textVars
    /\ UNCHANGED noteVars
    /\ UNCHANGED docVars
    /\ UNCHANGED <<sgVars, stVars, srVars, imVars, rwVars, agVars, auVars>>

\* analyzeText resolves
AnalyzeResolved == analyzeTextResolves(MaxNotes)

\* analyzeText resolves with up to MaxPanelNotes observations
AnalyzeResolvedInPanel == analyzeTextResolves(MaxPanelNotes)

\* analyzeText rejects: a network failure or handleResponse's ApiError
AnalyzeRejected ==
    /\ route = "editor"
    /\ \E r \in requests :
         /\ r.phase = "analyze"
         /\ requests' = requests \ {r}
    /\ \E message \in {"Failed to fetch", "ApiError"} : error' = message
    /\ isAnalyzing' = FALSE
    /\ UNCHANGED <<analysisResult, resultRequest, issued>>
    /\ UNCHANGED textVars
    /\ UNCHANGED noteVars
    /\ UNCHANGED docVars
    /\ UNCHANGED <<sgVars, stVars, srVars, imVars, rwVars, agVars, auVars>>

\* updateDocument (feedback count, analysis time) resolves
FeedbackCountSaved ==
    /\ route = "editor"
    /\ \E r \in requests :
         /\ r.phase = "update"
         /\ requests' = requests \ {r}
    /\ isAnalyzing' = FALSE
    /\ UNCHANGED <<analysisResult, resultRequest, error, issued>>
    /\ UNCHANGED textVars
    /\ UNCHANGED noteVars
    /\ UNCHANGED docVars
    /\ UNCHANGED <<sgVars, stVars, srVars, imVars, rwVars, agVars, auVars>>

\* updateDocument rejects inside handleAnalyze's try block
FeedbackCountFailed ==
    /\ route = "editor"
    /\ \E r \in requests :
         /\ r.phase = "update"
         /\ requests' = requests \ {r}
    /\ error' = "FirebaseError"
    /\ isAnalyzing' = FALSE
    /\ UNCHANGED <<analysisResult, resultRequest, issued>>
    /\ UNCHANGED textVars
    /\ UNCHANGED noteVars
    /\ UNCHANGED docVars
    /\ UNCHANGED <<sgVars, stVars, srVars, imVars, rwVars, agVars, auVars>>

----------------------------------------------------------------------------
(* The feedback cards' events and the stored document *)

ShownObservations ==
    IF CardsShown
    THEN {analysisResult.observations[i] : i \in 1..Len(analysisResult.observations)}
    ELSE {}

\* onMouseEnter of a card: handleHover(obs)
MouseEnterNote ==
    /\ \E obs \in ShownObservations : hoveredNote' = obs.id
    /\ UNCHANGED <<expandedNotes, activeNote>>
    /\ UNCHANGED textVars
    /\ UNCHANGED analysisVars
    /\ UNCHANGED docVars
    /\ UNCHANGED <<sgVars, stVars, srVars, imVars, rwVars, agVars, auVars>>

\* onMouseLeave of the card the pointer is on: handleHover(null)
MouseLeaveNote ==
    /\ \E obs \in ShownObservations : obs.id = hoveredNote
    /\ hoveredNote' = NoNote
    /\ UNCHANGED <<expandedNotes, activeNote>>
    /\ UNCHANGED textVars
    /\ UNCHANGED analysisVars
    /\ UNCHANGED docVars
    /\ UNCHANGED <<sgVars, stVars, srVars, imVars, rwVars, agVars, auVars>>

\* onClick of a card: handleActiveChange(obs)
ClickNote ==
    /\ \E obs \in ShownObservations : activeNote' = obs.id
    /\ UNCHANGED <<expandedNotes, hoveredNote>>
    /\ UNCHANGED textVars
    /\ UNCHANGED analysisVars
    /\ UNCHANGED docVars
    /\ UNCHANGED <<sgVars, stVars, srVars, imVars, rwVars, agVars, auVars>>

\* expandedId={Array.from(expanded)[0] || null}
expandedIdOf(expanded) ==
    IF expanded = {} THEN NoNote ELSE CHOOSE n \in expanded : TRUE

expandedId == expandedIdOf(expandedNotes)

\* Variant: the note is added to those already expanded
onExpandChangeAdding(id) ==
    IF id # NoNote THEN expandedNotes \cup {id} ELSE {}

\* onExpandChange(id): the set handed to setExpandedNotes
onExpandChange(id) ==
    IF id # NoNote THEN {id} ELSE {}

\* handleToggle(id) in a render whose expandedNotes is expanded: the new
\* expandedNotes
handleToggle(expanded, id) ==
    onExpandChange(IF expandedIdOf(expanded) = id THEN NoNote ELSE id)

\* onClick of a card's header
ToggleNote ==
    /\ \E obs \in ShownObservations :
         expandedNotes' = handleToggle(expandedNotes, obs.id)
    /\ UNCHANGED <<hoveredNote, activeNote>>
    /\ UNCHANGED textVars
    /\ UNCHANGED analysisVars
    /\ UNCHANGED docVars
    /\ UNCHANGED <<sgVars, stVars, srVars, imVars, rwVars, agVars, auVars>>

\* Variant: any stored document is taken over
mayLoadAny(doc) == doc # Null

\* doc && doc.userId === user.id
mayLoad(doc) == doc # Null /\ doc.userId = UserId

\* getDocument(documentId)
getDocument == IF documentId \in DocIds THEN store[documentId] ELSE Null

\* getDocument resolves in loadDocument: the document is taken over when it
\* exists and belongs to the user, else the page navigates to /documents
LoadResolved ==
    /\ route = "editor"
    /\ isLoadingDoc
    /\ LET doc == getDocument IN
         IF mayLoad(doc)
         THEN /\ currentDocument' = doc
              /\ text' = doc.content
              /\ lastSavedTextRef' = doc.content
              /\ hasUnsavedChanges' = unsavedAfter(doc.content, doc.content, doc)
              /\ autosaveTimer' =
                     autosaveAfter(doc.content, hasUnsavedChanges', doc, isSaving)
              /\ UNCHANGED route
         ELSE /\ route' = "/documents"
              /\ UNCHANGED <<currentDocument, text, lastSavedTextRef,
                             hasUnsavedChanges, autosaveTimer>>
    /\ isLoadingDoc' = FALSE
    /\ UNCHANGED <<snapshots, lastTextRef, clock>>
    /\ UNCHANGED analysisVars
    /\ UNCHANGED noteVars
    /\ UNCHANGED <<documentId, isSaving, saves, savesIssued, store>>
    /\ UNCHANGED <<sgVars, stVars, srVars, imVars, rwVars, agVars, auVars>>

\* getDocument rejects
LoadRejected ==
    /\ route = "editor"
    /\ isLoadingDoc
    /\ error' = "Failed to load document"
    /\ isLoadingDoc' = FALSE
    /\ UNCHANGED <<analysisResult, resultRequest, isAnalyzing, requests, issued>>
    /\ UNCHANGED textVars
    /\ UNCHANGED noteVars
    /\ UNCHANGED <<documentId, currentDocument, isSaving, hasUnsavedChanges,
                   lastSavedTextRef, saves, savesIssued, autosaveTimer, store, route>>
    /\ UNCHANGED <<sgVars, stVars, srVars, imVars, rwVars, agVars, auVars>>

\* saveDocument up to its await, in the render whose document, text and
\* isSaving it closes over; it returns at once when that isSaving is set
saveDocument(closure) ==
    IF closure.isSaving
    THEN UNCHANGED <<isSaving, saves, savesIssued>>
    ELSE /\ savesIssued < MaxSaveCalls
         /\ isSaving' = TRUE
         /\ savesIssued' = savesIssued + 1
         /\ saves' = saves \cup {[id       |-> savesIssued + 1,
                                   document |-> closure.document,
                                   content  |-> closure.content]}

\* The Save button, enabled with unsaved changes and no save running
SaveButton ==
    /\ EditorShown
    /\ ~isSaving
    /\ hasUnsavedChanges
    /\ saveDocument([document |-> currentDocument, isSaving |-> isSaving,
                     content |-> text])
    /\ UNCHANGED textVars
    /\ UNCHANGED analysisVars
    /\ UNCHANGED noteVars
    /\ UNCHANGED <<documentId, currentDocument, isLoadingDoc, hasUnsavedChanges,
                   lastSavedTextRef, autosaveTimer, store, route>>
    /\ UNCHANGED <<sgVars, stVars, srVars, imVars, rwVars, agVars, auVars>>

\* The auto-save timer fires: saveDocument of the render that set the timer
AutosaveTimeout ==
    /\ route = "editor"
    /\ autosaveTimer # Null
    /\ saveDocument(autosaveTimer)
    /\ autosaveTimer' = Null
    /\ UNCHANGED textVars
    /\ UNCHANGED analysisVars
    /\ UNCHANGED noteVars
    /\ UNCHANGED <<documentId, currentDocument, isLoadingDoc, hasUnsavedChanges,
                   lastSavedTextRef, store, route>>
    /\ UNCHANGED <<sgVars, stVars, srVars, imVars, rwVars, agVars, auVars>>

\* updateDocument or createDocument resolves in saveDocument
SaveResolved ==
    /\ route = "editor"
    /\ \E s \in saves :
         /\ saves' = saves \ {s}
         /\ lastSavedTextRef' = s.content
         /\ IF s.document # Null
            THEN /\ store[s.document.id] # Null
                 /\ store' = [store EXCEPT ![s.document.id].content = s.content]
                 /\ hasUnsavedChanges' = FALSE
                 /\ autosaveTimer' = Null
                 /\ UNCHANGED currentDocument
            ELSE LET newDoc == [id |-> nextDocId(store), userId |-> UserId,
                                content |-> s.content]
                 IN  /\ store' = [store EXCEPT ![newDoc.id] = newDoc]
                     /\ currentDocument' = newDoc
                     /\ hasUnsavedChanges' = unsavedAfter(text, s.content, newDoc)
                     /\ autosaveTimer' =
                            IF hasUnsavedChanges'
                            THEN [document |-> newDoc, isSaving |-> FALSE,
                                  content |-> text]
                            ELSE Null
    /\ isSaving' = FALSE
    /\ UNCHANGED textVars
    /\ UNCHANGED analysisVars
    /\ UNCHANGED noteVars
    /\ UNCHANGED <<documentId, isLoadingDoc, savesIssued, route>>
    /\ UNCHANGED <<sgVars, stVars, srVars, imVars, rwVars, agVars, auVars>>

\* updateDocument or createDocument rejects
SaveRejected ==
    /\ route = "editor"
    /\ \E s \in saves : saves' = saves \ {s}
    /\ error' = "Failed to save document"
    /\ isSaving' = FALSE
    /\ UNCHANGED <<analysisResult, resultRequest, isAnalyzing, requests, issued>>
    /\ UNCHANGED textVars
    /\ UNCHANGED noteVars
    /\ UNCHANGED <<documentId, currentDocument, isLoadingDoc, hasUnsavedChanges,
                   lastSavedTextRef, savesIssued, autosaveTimer, store, route>>
    /\ UNCHANGED <<sgVars, stVars, srVars, imVars, rwVars, agVars, auVars>>

----------------------------------------------------------------------------
(* Signing in and out, and the router *)

\* The application loaded on any route: the provider has not heard from
\* onAuthStateChanged yet
AuthInit ==
    /\ auUser = NoUser
    /\ auLoading = TRUE
    /\ auError = NoAuthError
    /\ auRoute \in Routes
    /\ auPageLoading = initialPageLoading(auRoute)
    /\ auPending = FALSE
    /\ auEffects = TRUE

Rendered ==
    routeElement(auRoute, auLoading, auPageLoading, isAuthenticated(auUser))

\* The router mounts the page of route r
mount(r) ==
    /\ auRoute' = r
    /\ auPageLoading' = initialPageLoading(r)
    /\ auPending' = FALSE
    /\ auEffects' = TRUE

\* The callback of onAuthStateChanged with user u, or with null
AuthStateChanged(u) ==
    /\ ~auEffects
    /\ auUser' = u
    /\ auLoading' = FALSE
    /\ auEffects' = (auLoading \/ isAuthenticated(u) # isAuthenticated(auUser))
    /\ UNCHANGED <<auError, auRoute, auPageLoading, auPending>>
    /\ UNCHANGED <<sgVars, stVars, srVars, imVars, rwVars, agVars, edVars>>

\* The effects of the mounted page after a render: the redirect of a guarded
\* page, the navigation after sign-in of the landing page
RunEffects ==
    /\ auEffects
    /\ IF Guarded(auRoute)
       THEN LET target == redirectEffect(auRoute, auLoading, isAuthenticated(auUser))
            IN  IF target # auRoute
                THEN mount(target)
                ELSE /\ auEffects' = FALSE
                     /\ UNCHANGED <<auRoute, auPageLoading, auPending>>
       ELSE IF auPending /\ isAuthenticated(auUser)
            THEN mount("/dashboard")
            ELSE /\ auEffects' = FALSE
                 /\ UNCHANGED <<auRoute, auPageLoading, auPending>>
    /\ UNCHANGED <<auUser, auLoading, auError>>
    /\ UNCHANGED <<sgVars, stVars, srVars, imVars, rwVars, agVars, edVars>>

\* A link or the address bar takes the router to route r
Visit(r) ==
    /\ ~auEffects
    /\ r # auRoute
    /\ mount(r)
    /\ UNCHANGED <<auUser, auLoading, auError>>
    /\ UNCHANGED <<sgVars, stVars, srVars, imVars, rwVars, agVars, edVars>>

\* loadData of the dashboard or loadDocument of the editor finishes; the
\* editor goes to /documents when the document is not the user's
DataLoaded ==
    /\ ~auEffects
    /\ Guarded(auRoute)
    /\ auPageLoading
    /\ isAuthenticated(auUser)
    /\ \/ /\ auPageLoading' = FALSE
          /\ UNCHANGED <<auRoute, auPending, auEffects>>
       \/ /\ auRoute = "/editor/:documentId"
          /\ mount("/documents")
    /\ UNCHANGED <<auUser, auLoading, auError>>
    /\ UNCHANGED <<sgVars, stVars, srVars, imVars, rwVars, agVars, edVars>>

\* handleGetStarted of the landing page
GetStarted ==
    /\ ~auEffects
    /\ auRoute = LandingRoute
    /\ IF isAuthenticated(auUser)
       THEN mount("/dashboard")
       ELSE /\ auPending' = TRUE
            /\ UNCHANGED <<auRoute, auPageLoading, auEffects>>
    /\ UNCHANGED <<auUser, auLoading, auError>>
    /\ UNCHANGED <<sgVars, stVars, srVars, imVars, rwVars, agVars, edVars>>

\* signInWithPopup rejects with another code than a closed popup
SignInFailed ==
    /\ ~auEffects
    /\ auRoute = LandingRoute
    /\ auPending
    /\ ~isAuthenticated(auUser)
    /\ auError' = "Failed to sign in with Google"
    /\ UNCHANGED <<auUser, auLoading, auRoute, auPageLoading, auPending, auEffects>>
    /\ UNCHANGED <<sgVars, stVars, srVars, imVars, rwVars, agVars, edVars>>

\* firebaseSignOut rejects after a click on Sign out in a page's header
SignOutFailed ==
    /\ ~auEffects
    /\ Rendered = "content"
    /\ auError' = "Failed to sign out"
    /\ UNCHANGED <<auUser, auLoading, auRoute, auPageLoading, auPending, auEffects>>
    /\ UNCHANGED <<sgVars, stVars, srVars, imVars, rwVars, agVars, edVars>>

\* The state of this part while another part of the program is exercised
AuthIdle ==
    /\ auUser = NoUser
    /\ auLoading = TRUE
    /\ auError = NoAuthError
    /\ auRoute = "idle"
    /\ auPageLoading = FALSE
    /\ auPending = FALSE
    /\ auEffects = FALSE

----------------------------------------------------------------------------
(* Specifications *)

EditorIdle == EditorInit

\* Segmentation, anchor resolution and the highlight layer on every text
SegmentInit == SegInit /\ SortIdle /\ SourcesIdle /\ MapIdle /\ TrackIdle /\ AgreeIdle /\ AuthIdle /\ EditorIdle
SegNext == Segment \/ Resolve
SpecSegment == SegmentInit /\ [][SegNext]_vars

\* The feedback panel's ordering on every observation array
PanelInit == SortInit /\ SegIdle /\ SourcesIdle /\ MapIdle /\ TrackIdle /\ AgreeIdle /\ AuthIdle /\ EditorIdle
SortNext == RenderPanel
SpecSort == PanelInit /\ [][SortNext]_vars

\* The source registry on every id list
RegistryInit == SourcesInit /\ SegIdle /\ SortIdle /\ MapIdle /\ TrackIdle /\ AgreeIdle /\ AuthIdle /\ EditorIdle
SourcesNext == ResolveSources
SpecSources == RegistryInit /\ [][SourcesNext]_vars

\* The instability map on every unstable list and paragraph count
InstabilityInit == MapInit /\ SegIdle /\ SortIdle /\ SourcesIdle /\ TrackIdle /\ AgreeIdle /\ AuthIdle /\ EditorIdle
MapNext == RenderMap
SpecMap == InstabilityInit /\ [][MapNext]_vars

\* The instability tracker on every snapshot history
TrackerInit == TrackInit /\ SegIdle /\ SortIdle /\ SourcesIdle /\ MapIdle /\ AgreeIdle /\ AuthIdle /\ EditorIdle
TrackNext == Track
SpecTrack == TrackerInit /\ [][TrackNext]_vars

\* The two segmenters on every text
SegmentersInit == AgreeInit /\ SegIdle /\ SortIdle /\ SourcesIdle /\ MapIdle /\ TrackIdle /\ AuthIdle /\ EditorIdle
AgreeNext == SegmentByMatch \/ SegmentBySplit
SpecAgree == SegmentersInit /\ [][AgreeNext]_vars

\* Signing in and out while moving between the pages
PagesInit == AuthInit /\ SegIdle /\ SortIdle /\ SourcesIdle /\ MapIdle /\ TrackIdle /\ AgreeIdle /\ EditorIdle
AuthNext ==
    \/ \E u \in Users \cup {NoUser} : AuthStateChanged(u)
    \/ RunEffects
    \/ \E r \in Routes : Visit(r)
    \/ DataLoaded
    \/ GetStarted
    \/ SignInFailed
    \/ SignOutFailed
SpecAuth == PagesInit /\ [][AuthNext]_vars

\* The texts typed in the sessions below
EditAlphabet == {"a", "A", DotI}
EditTexts == StringsUpTo(EditAlphabet, MaxEditLen)
SnapshotTexts == {<<>>, <<"a">>, <<"a", "a">>}
SessionTexts == {<<>>, <<"a">>}

\* Editing, analysing and pointing at notes: the highlight layer
HighlightNext ==
    \/ \E t \in EditTexts : SetText(t)
    \/ AnalyzeButton
    \/ AnalyzeShortcut
    \/ AnalyzeResolved
    \/ AnalyzeRejected
    \/ MouseEnterNote
    \/ MouseLeaveNote
    \/ ClickNote
HighlightInit == EditorInit /\ SegIdle /\ SortIdle /\ SourcesIdle /\ MapIdle /\ TrackIdle /\ AgreeIdle /\ AuthIdle
SpecHighlight == HighlightInit /\ [][HighlightNext]_vars

\* Analysing one text and pointing at, clicking and toggling its notes
PanelTexts == {<<"a">>}
NotesNext ==
    \/ \E t \in PanelTexts : SetText(t)
    \/ AnalyzeButton
    \/ AnalyzeResolvedInPanel
    \/ MouseEnterNote
    \/ MouseLeaveNote
    \/ ClickNote
    \/ ToggleNote
NotesInit == EditorInit /\ SegIdle /\ SortIdle /\ SourcesIdle /\ MapIdle /\ TrackIdle /\ AgreeIdle /\ AuthIdle
SpecNotes == NotesInit /\ [][NotesNext]_vars

\* Editing, the snapshot timer and analysing: the snapshot history
SnapshotsNext ==
    \/ \E t \in SnapshotTexts : SetText(t)
    \/ SnapshotTick
    \/ AnalyzeButton
    \/ AnalyzeShortcut
    \/ AnalyzeResolved
    \/ AnalyzeRejected
SnapshotsInit == EditorInit /\ SegIdle /\ SortIdle /\ SourcesIdle /\ MapIdle /\ TrackIdle /\ AgreeIdle /\ AuthIdle
SpecSnapshots == SnapshotsInit /\ [][SnapshotsNext]_vars

\* The page opened on any route, with the stored document of the signed-in
\* user or of another user
SessionInit ==
    /\ text = <<>>
    /\ snapshots = <<>>
    /\ lastTextRef = <<>>
    /\ clock = 0
    /\ analysisResult = Null
    /\ resultRequest = 0
    /\ isAnalyzing = FALSE
    /\ error = NoError
    /\ requests = {}
    /\ issued = 0
    /\ expandedNotes = {}
    /\ hoveredNote = NoNote
    /\ activeNote = NoNote
    /\ documentId \in {NoDocumentId, StoredDocId, MissingDocId}
    /\ currentDocument = Null
    /\ isLoadingDoc = (documentId # NoDocumentId)
    /\ isSaving = FALSE
    /\ hasUnsavedChanges = TRUE
    /\ lastSavedTextRef = <<>>
    /\ saves = {}
    /\ savesIssued = 0
    /\ autosaveTimer = [document |-> Null, isSaving |-> FALSE, content |-> <<>>]
    /\ \E owner \in {UserId, OtherUser}, content \in SessionTexts :
          store = [d \in DocIds |->
                      IF d = StoredDocId
                      THEN [id |-> d, userId |-> owner, content |-> content]
                      ELSE Null]
    /\ route = "editor"

\* Every handler of the page
Next ==
    \/ \E t \in SessionTexts : SetText(t)
    \/ SnapshotTick
    \/ AnalyzeButton
    \/ AnalyzeShortcut
    \/ AnalyzeResolved
    \/ AnalyzeRejected
    \/ FeedbackCountSaved
    \/ FeedbackCountFailed
    \/ MouseEnterNote
    \/ MouseLeaveNote
    \/ ClickNote
    \/ ToggleNote
    \/ LoadResolved
    \/ LoadRejected
    \/ SaveButton
    \/ AutosaveTimeout
    \/ SaveResolved
    \/ SaveRejected
Init == SessionInit /\ SegIdle /\ SortIdle /\ SourcesIdle /\ MapIdle /\ TrackIdle /\ AgreeIdle /\ AuthIdle
Spec == Init /\ [][Next]_vars

----------------------------------------------------------------------------
(* The pages' guards *)

SignedOutOnGuardedPage ==
    Guarded(auRoute) /\ auRoute \in Routes /\ ~auLoading /\ ~isAuthenticated(auUser)

----------------------------------------------------------------------------
(* Claims on segmentation and anchor resolution (under SpecSegment) *)

InRange(k) == k >= 0 /\ k < Len(sgParas)

\* Two strings are equal ignoring case
EqIgnoreCase(x, y) == toLowerCase(x) = toLowerCase(y)

\* anchor occurs in content at the 0-based offset i, ignoring case
OccursAt(content, anchor, i) ==
    /\ i >= 0
    /\ i + Len(anchor) <= Len(content)
    /\ EqIgnoreCase(slice(content, i, i + Len(anchor)), anchor)

Occurs(content, anchor) == \E i \in 0..Len(content) : OccursAt(content, anchor, i)

LeftmostOccurrence(content, anchor) ==
    CHOOSE i \in 0..Len(content) :
        /\ OccursAt(content, anchor, i)
        /\ \A j \in 0..(i - 1) : ~OccursAt(content, anchor, j)

\* C1: every paragraph returned by splitIntoParagraphs satisfies
\* text.slice(p.start, p.end) = p.content: the offsets index the original,
\* untrimmed text.
C1_OffsetsIndexText ==
    sgPc # "text" =>
        \A k \in 1..Len(sgParas) :
            /\ 0 <= sgParas[k].start
            /\ sgParas[k].end <= Len(sgText)
            /\ slice(sgText, sgParas[k].start, sgParas[k].end) = sgParas[k].content

\* A paragraph that starts after a leading line break and keeps its trailing
\* white space
C1_Witness ==
    /\ sgPc = "split"
    /\ Len(sgParas) = 1
    /\ sgParas[1].start = 1
    /\ sgParas[1].content = <<"a", NL, SP>>

\* C2: white-space-only paragraphs are dropped without an index; the survivors
\* are numbered p0, p1, ... in document order, their ranges are non-empty,
\* pairwise disjoint and strictly increasing, they cover every code unit that
\* is not white space, and a blank document yields the empty list.
C2_ConsecutiveIndices ==
    sgPc # "text" =>
        /\ \A k \in 1..Len(sgParas) :
              /\ sgParas[k].id = <<"p", k - 1>>
              /\ ~trimIsEmpty(sgParas[k].content)
              /\ sgParas[k].start < sgParas[k].end
        /\ \A k \in 1..(Len(sgParas) - 1) : sgParas[k].end <= sgParas[k + 1].start
        /\ \A i \in 1..Len(sgText) :
              ~IsWhiteSpace(sgText[i]) =>
                  \E k \in 1..Len(sgParas) :
                      sgParas[k].start < i /\ i <= sgParas[k].end
        /\ trimIsEmpty(sgText) => sgParas = <<>>

\* A white-space-only first paragraph is dropped and the next one is p0
C2_Witness ==
    /\ sgPc = "split"
    /\ sgText = <<SP, NL, NL, "a">>
    /\ Len(sgParas) = 1
    /\ sgParas[1].id = <<"p", 0>>
    /\ sgParas[1].start = 3

\* C3: for an index in range and an anchor that occurs in that paragraph
\* ignoring case, findAnchorPosition returns the leftmost occurrence in
\* document coordinates: start = paragraph.start + i for the smallest matching
\* i, and end = start + length of the anchor.
C3_LeftmostOccurrence ==
    (/\ sgPc = "resolved"
     /\ InRange(sgIdx)
     /\ Occurs(sgParas[sgIdx + 1].content, sgAnchor)) =>
        LET para == sgParas[sgIdx + 1]
            i    == LeftmostOccurrence(para.content, sgAnchor)
        IN  sgPos = [start |-> para.start + i,
                     end   |-> para.start + i + Len(sgAnchor)]

\* C4: with the paragraph index out of range, or the anchor absent from that
\* paragraph, findAnchorPosition returns null and the highlight layer is the
\* escaped text without a mark.
C4_AbsentMeansNoMark ==
    (/\ sgPc = "resolved"
     /\ \/ ~InRange(sgIdx)
        \/ ~Occurs(sgParas[sgIdx + 1].content, sgAnchor)) =>
        /\ sgPos = Null
        /\ sgHtml = escapeHtml(sgText)
        /\ ~HasMark(sgHtml)

\* The index is in range, the anchor is not empty and does not occur
C4_Witness ==
    /\ sgPc = "resolved"
    /\ InRange(sgIdx)
    /\ sgIdx = 1
    /\ sgAnchor = <<"A", SP>>
    /\ Len(sgParas) = 2
    /\ sgPos = Null
    /\ sgHtml = escapeHtml(sgText)


----------------------------------------------------------------------------
(* The two segmenters *)

\* C23: on every text both segmenters yield the same number of paragraphs
\* and, index by index, the same paragraph text up to surrounding white space
C23_SegmentersAgree ==
    agPc = {"match", "split"} =>
        /\ Len(agMatched) = Len(agSplit)
        /\ \A i \in 1..Len(agMatched) :
              trim(agMatched[i].content) = trim(agSplit[i])

----------------------------------------------------------------------------
(* Claim on the feedback panel (under SpecSort) *)

\* C8: the panel shows the observations by ascending paragraph, then by
\* descending severity, observations equal in both keys in their input order;
\* the received array is left as it was (position i still holds id i).
C8_PanelOrder ==
    stPc = "rendered" =>
        /\ Len(stSorted) = Len(stObservations)
        /\ \A i \in 1..Len(stObservations) :
              /\ stObservations[i].id = i
              /\ \E j \in 1..Len(stSorted) : stSorted[j] = stObservations[i]
        /\ \A i, j \in 1..Len(stSorted) :
              i < j =>
                \/ stSorted[i].paragraph < stSorted[j].paragraph
                \/ /\ stSorted[i].paragraph = stSorted[j].paragraph
                   /\ stSorted[i].severity > stSorted[j].severity
                \/ /\ stSorted[i].paragraph = stSorted[j].paragraph
                   /\ stSorted[i].severity = stSorted[j].severity
                   /\ stSorted[i].id < stSorted[j].id

\* Three observations that the sort reorders, two of them equal in both keys
C8_Witness ==
    /\ stPc = "rendered"
    /\ Len(stSorted) = 3
    /\ stSorted[1].id = 3
    /\ stSorted[2].id = 1
    /\ stSorted[3].id = 2
    /\ stSorted[2].paragraph = stSorted[3].paragraph
    /\ stSorted[2].severity = stSorted[3].severity

----------------------------------------------------------------------------
(* Claim on the instability map (under SpecMap) *)

\* The unstable list has an entry for paragraph i
Listed(i) == \E k \in 1..Len(imUnstable) : imUnstable[k].paragraph = i

\* The rewrite_count the list assigns to paragraph i: forEach sets the map in
\* list order, so the last entry for i is the one that counts
Assigned(i) ==
    imUnstable[CHOOSE k \in 1..Len(imUnstable) :
                   /\ imUnstable[k].paragraph = i
                   /\ \A j \in (k + 1)..Len(imUnstable) : imUnstable[j].paragraph # i].rewrite_count

\* C12: the cell of paragraph i is marked unstable exactly when the unstable
\* list assigns paragraph i a rewrite_count of at least 2; a paragraph that
\* does not occur in the list counts 0 rewrites and is shown as stable; there
\* is one cell per paragraph.
C12_UnstableFromTwoRewrites ==
    imPc = "rendered" =>
        /\ Len(imCells) = imParagraphCount
        /\ \A i \in 0..(imParagraphCount - 1) :
              /\ imCells[i + 1].isUnstable <=> (Listed(i) /\ Assigned(i) >= 2)
              /\ ~Listed(i) => imCells[i + 1].count = 0 /\ ~imCells[i + 1].isUnstable

\* Paragraph 0 with 2 rewrites is unstable, paragraph 1 with 1 rewrite and
\* the unlisted paragraph 2 are stable
C12_Witness ==
    /\ imPc = "rendered"
    /\ imParagraphCount = 3
    /\ imUnstable = <<[paragraph |-> 0, rewrite_count |-> 2],
                      [paragraph |-> 1, rewrite_count |-> 1]>>
    /\ imCells[1].isUnstable
    /\ ~imCells[2].isUnstable
    /\ ~imCells[3].isUnstable

----------------------------------------------------------------------------
(* Claim on the source registry (under SpecSources) *)

\* C10: every returned source is a registry entry whose id is among ids, no
\* registry entry is returned twice, and the ids without a registry entry
\* contribute nothing: one source per distinct registered id.
C10_NeverInvents ==
    srPc = "resolved" =>
        /\ \A k \in 1..Len(srSources) :
              /\ \E r \in 1..Len(BUILT_IN_SOURCES) :
                    srSources[k] = withSystemOwner(BUILT_IN_SOURCES[r])
              /\ includes(srIds, srSources[k].id)
        /\ \A j, k \in 1..Len(srSources) : j # k => srSources[j] # srSources[k]
        /\ Len(srSources) =
              Cardinality({srIds[i] : i \in 1..Len(srIds)} \ {"S9"})

\* A duplicated id and an unknown id yield the one registered source
C10_Witness ==
    /\ srPc = "resolved"
    /\ srIds = <<"S2", "S9", "S2">>
    /\ Len(srSources) = 1
    /\ srSources[1].id = "S2"

\* The position of the first occurrence of id in ids
FirstOccurrence(ids, id) == CHOOSE i \in 1..Len(ids) : ids[i] = id /\ \A j \in 1..(i - 1) : ids[j] # id

\* C11: the returned sources appear in the order in which their ids first
\* occur in ids.
C11_FirstAppearanceOrder ==
    srPc = "resolved" =>
        \A j, k \in 1..Len(srSources) :
            j < k => FirstOccurrence(srIds, srSources[j].id)
                        < FirstOccurrence(srIds, srSources[k].id)

----------------------------------------------------------------------------
(* Claim on the instability tracker (under SpecTrack) *)

\* The versions of the call and their paragraphs
rwVersions == versionsOf(rwSnapshots, rwText)
rwSegs == [k \in 1..Len(rwVersions) |-> segmentContents(rwVersions[k])]

\* Slot i is in every version
InEveryVersion(i) == \A k \in 1..Len(rwSegs) : i < Len(rwSegs[k])

\* The content of slot i changes substantively in every successive version
ChangesEveryTime(i) ==
    /\ InEveryVersion(i)
    /\ \A k \in 1..(Len(rwSegs) - 1) : substantive(rwSegs[k][i + 1], rwSegs[k + 1][i + 1])

\* The content of slot i is the same in every version
NeverChanges(i) ==
    /\ InEveryVersion(i)
    /\ \A k \in 1..(Len(rwSegs) - 1) : rwSegs[k][i + 1] = rwSegs[k + 1][i + 1]

\* The rewrite_count reported for slot i, 0 when the slot is not reported
ReportedCount(i) ==
    IF \E k \in 1..Len(rwUnstable) : rwUnstable[k].paragraph = i
    THEN rwUnstable[CHOOSE k \in 1..Len(rwUnstable) : rwUnstable[k].paragraph = i].rewrite_count
    ELSE 0

----------------------------------------------------------------------------
(* Claims on the highlight layer (under SpecHighlight) *)

\* The span of the mark in the rendered layer, in offsets of the text: the
\* tokens before the opening tag and the tokens before the closing tag
markStart == (CHOOSE i \in 1..Len(highlightLayer) : highlightLayer[i] = MarkOpen) - 1
markEnd == (CHOOSE i \in 1..Len(highlightLayer) : highlightLayer[i] = MarkClose) - 2

ParagraphExists(k) == k >= 0 /\ k < Len(paragraphs)

\* The lower-cased paragraph contains the lower-cased anchor
AnchorPresent(obs) ==
    /\ ParagraphExists(obs.paragraph)
    /\ LET content == toLowerCase(paragraphs[obs.paragraph + 1].content)
           anchor  == toLowerCase(obs.anchor_text)
       IN  \E i \in 0..Len(content) :
              /\ i + Len(anchor) <= Len(content)
              /\ SubSeq(content, i + 1, i + Len(anchor)) = anchor

AnchoredObservations ==
    IF analysisResult = Null THEN {}
    ELSE {analysisResult.observations[i] : i \in
             {j \in 1..Len(analysisResult.observations) :
                 analysisResult.observations[j].anchor_text # <<>>}}

\* C5: whenever the layer holds a mark, its span lies inside the current
\* paragraph with the highlighted observation's index, and the marked text
\* equals the observation's anchor_text ignoring case.
C5_MarkMatchesAnchor ==
    HasMark(highlightLayer) =>
        LET obs == highlightedObservation IN
        /\ obs # Null
        /\ ParagraphExists(obs.paragraph)
        /\ paragraphs[obs.paragraph + 1].start <= markStart
        /\ markEnd <= paragraphs[obs.paragraph + 1].end
        /\ EqIgnoreCase(slice(text, markStart, markEnd), obs.anchor_text)

\* C6, as stated: every observation of the current result that carries
\* anchor_text resolves to a highlight range in the current text, whatever
\* edits were made since the analysis.
C6_AlwaysResolves ==
    \A obs \in AnchoredObservations :
        findAnchorPosition(paragraphs, obs.paragraph, obs.anchor_text) # Null

\* C6, amended: an observation of the current result that carries anchor_text
\* resolves to a highlight range exactly when the current text has a paragraph
\* with the observation's index whose lower-cased content contains the
\* lower-cased anchor; pointed at, it is marked exactly then, and otherwise the
\* layer is the unhighlighted text.
C6_ResolvesWhileAnchorPresent ==
    /\ \A obs \in AnchoredObservations :
          (findAnchorPosition(paragraphs, obs.paragraph, obs.anchor_text) # Null)
              <=> AnchorPresent(obs)
    /\ (highlightedObservation # Null /\ highlightedObservation.anchor_text # <<>>) =>
          /\ HasMark(highlightLayer) <=> AnchorPresent(highlightedObservation)
          /\ ~AnchorPresent(highlightedObservation) => highlightLayer = escapeHtml(text)

\* An anchored observation is pointed at after an edit removed its anchor:
\* the paragraph is still there and the layer has no mark
C6_Witness ==
    /\ highlightedObservation # Null
    /\ highlightedObservation.anchor_text = <<"a">>
    /\ hoveredNote = highlightedObservation.id
    /\ text = <<DotI>>
    /\ ParagraphExists(highlightedObservation.paragraph)
    /\ ~HasMark(highlightLayer)

----------------------------------------------------------------------------
(* Claim on the snapshot history (under SpecSnapshots) *)

\* C9: the history never holds more than MAX_SNAPSHOTS entries and is always
\* the most recent snapshots in creation order, oldest first.
C9_HistoryCapped ==
    /\ Len(snapshots) <= MAX_SNAPSHOTS
    /\ Len(snapshots) = Min(clock, MAX_SNAPSHOTS)
    /\ \A k \in 1..Len(snapshots) : snapshots[k].ts = clock - Len(snapshots) + k

\* Two snapshots beyond the cap were created and the two oldest are gone
C9_Witness ==
    /\ clock = MAX_SNAPSHOTS + 2
    /\ Len(snapshots) = MAX_SNAPSHOTS
    /\ snapshots[1].ts = 3
    /\ snapshots[MAX_SNAPSHOTS].text = text

----------------------------------------------------------------------------
(* Claim on the writer's text (under Spec) *)

\* C7: a step changes the text only if it is the textarea's onChange or the
\* take-over of a loaded document, and every analyze request issued by a step
\* carries the text of the editor at that step.
C7_TextNeverRewritten ==
    [][/\ text' # text => \/ \E t \in SessionTexts : SetText(t)
                          \/ LoadResolved
       /\ \A r \in requests' :
              r.id \notin {q.id : q \in requests} => r.text = text /\ r.text = text']_vars

\* An analysis was answered, a snapshot taken and a document saved while the
\* text stayed what the writer typed
C7_Witness ==
    /\ text = <<"a">>
    /\ analysisResult # Null
    /\ snapshots # <<>>
    /\ store[CreatedDocIds[1]] # Null
    /\ expandedNotes # {}
    /\ hoveredNote # NoNote
    /\ activeNote # NoNote

----------------------------------------------------------------------------
(* Expanding and collapsing notes *)

\* A step that changes which notes are expanded without starting an analysis:
\* a click on a card's header
ToggleStep == expandedNotes' # expandedNotes /\ issued' = issued

\* expandedNotes after the header of note id is clicked twice
toggledTwice(id) == handleToggle(handleToggle(expandedNotes, id), id)

ToggleFrame ==
    /\ UNCHANGED <<activeNote, hoveredNote, analysisResult, text>>
    /\ highlightedObservation' = highlightedObservation
    /\ highlightLayer' = highlightLayer

\* C14 as stated, its last part: clicking the header of a shown note twice
\* gives back the expansion state from before the two clicks
C14_ToggleTwiceRestores ==
    \A obs \in ShownObservations : toggledTwice(obs.id) = expandedNotes

\* C14, amended: a click on a note's header leaves the active note, the
\* hovered note, the analysis result, the text and so the highlighted span
\* unchanged; at most one note is expanded at any time; clicking the same
\* header twice gives back the previous expansion state when no other note was
\* expanded, and leaves no note expanded when another one was
C14_ToggleKeepsMapping ==
    /\ [][ToggleStep => ToggleFrame]_vars
    /\ [](Cardinality(expandedNotes) <= 1)
    /\ [](\A obs \in ShownObservations :
             toggledTwice(obs.id) =
                 IF expandedNotes \subseteq {obs.id} THEN expandedNotes ELSE {})

\* Two notes are shown, one of them is expanded and highlighted, and a click
\* on the other's header would collapse it
C14_Witness ==
    /\ Cardinality(ShownObservations) = 2
    /\ expandedNotes = {"o2"}
    /\ activeNote = "o2"
    /\ highlightedObservation # Null
    /\ HasMark(highlightLayer)
    /\ handleToggle(expandedNotes, "o1") = {"o1"}
    /\ toggledTwice("o1") = {}

----------------------------------------------------------------------------
(* Analyze requests *)

\* The requests a step issues
Issued == {r \in requests' : r.id \notin {q.id : q \in requests}}

\* The requests whose analyzeText call has not returned
Pending == {r \in requests : r.phase = "analyze"}

\* C15: when handleAnalyze runs on a text that is not blank and differs from
\* the last snapshotted text, the snapshots of the request it issues end with
\* a snapshot of the request's text
C15_SnapshotBeforeAnalyze ==
    [][\A r \in Issued :
          createSnapshotRuns =>
              /\ r.snapshots # <<>>
              /\ r.snapshots[Len(r.snapshots)].text = r.text]_vars

\* C16: at most one analyze request is in flight at any time
C16_OneRequestInFlight == Cardinality(Pending) <= 1

\* C17: the stored result never goes from the response to a newer request
\* back to the response to an older one
C17_NewerResultStays == [][resultRequest' >= resultRequest]_vars

\* C18: isAnalyzing is never false while an analyze request is pending, and
\* never true when no call of handleAnalyze is still running
C18_AnalyzingWhilePending ==
    /\ Pending # {} => isAnalyzing
    /\ isAnalyzing => requests # {}

\* The call of handleAnalyze that issued r returns in this step
Returns(r) == r.id \notin {q.id : q \in requests'}

\* analyzeText rejects for r in this step
Fails(r) == r.phase = "analyze" /\ Returns(r) /\ resultRequest' # r.id

\* C19: a call of handleAnalyze whose analyze request succeeded returns
\* without setting the error message; when the request fails the message is
\* set and analysisResult keeps its value; starting an analysis clears the
\* message
C19_ErrorOnlyFromFailedAnalyze ==
    [][/\ \A r \in requests : (r.phase = "update" /\ Returns(r)) => error' = error
       /\ \A r \in requests :
             Fails(r) => (error' # NoError /\ analysisResult' = analysisResult)
       /\ Issued # {} => error' = NoError]_vars

----------------------------------------------------------------------------
(* Stored documents *)

\* getDocument resolves in this step
LoadReturns == isLoadingDoc /\ ~isLoadingDoc' /\ error' = error

Owned(doc) == doc # Null /\ doc.userId = UserId

\* C20: when getDocument resolves, the stored document is loaded into the
\* editor only if it exists and belongs to the signed-in user, otherwise
\* nothing is loaded and the page navigates to /documents; currentDocument is
\* always null or a document of the signed-in user, no save is made on
\* another user's document and no step changes another user's document
C20_OnlyOwnDocuments ==
    /\ [][LoadReturns =>
             IF Owned(getDocument)
             THEN /\ currentDocument' = getDocument
                  /\ text' = getDocument.content
                  /\ route' = "editor"
             ELSE /\ UNCHANGED <<currentDocument, text, lastSavedTextRef>>
                  /\ route' = "/documents"]_vars
    /\ [](currentDocument = Null \/ currentDocument.userId = UserId)
    /\ [](\A s \in saves : s.document = Null \/ s.document.userId = UserId)
    /\ [][\A d \in DocIds :
             (store[d] # Null /\ store[d].userId # UserId) => store'[d] = store[d]]_vars

\* The route named another user's document: nothing of it was loaded and the
\* page went to /documents
C20_Witness ==
    /\ documentId = StoredDocId
    /\ store[StoredDocId].userId = OtherUser
    /\ store[StoredDocId].content = <<"a">>
    /\ ~isLoadingDoc
    /\ route = "/documents"
    /\ currentDocument = Null
    /\ text = <<>>

\* The documents createDocument has stored
Created == {d \in DocIds : d # StoredDocId /\ store[d] # Null}

\* C22: a session that starts without a stored document creates at most one
\* stored document
C22_AtMostOneCreated == documentId = NoDocumentId => Cardinality(Created) <= 1

====
